---- MODULE Spec2Model ----
(***************************************************************************)
(* MapleClear backend adapters (server/backends/*.py) and the server       *)
(* startup (server/app.py): one backend handle, its initialize(), and the  *)
(* simplify / translate / expand_acronyms requests run against it.         *)
(*                                                                         *)
(* A request is split at its suspension points (the awaits on the engine   *)
(* process or on an HTTP response); everything between two awaits is one   *)
(* step.  Exceptions are modelled as values: an operation either returns   *)
(* a result or raises, and a raise names the Python exception class.       *)
(***************************************************************************)
EXTENDS Naturals, Sequences, FiniteSets, TLC

\* ------------------------------------------------------------------ bounds
\* Requests issued to one handle in one run.
MaxRequests == 2
\* Longest model list the LM Studio discovery endpoint answers with.
MaxModels == 2
\* cleanup() calls on one handle in one run.
MaxCleanups == 2
\* Longest text, in tokens, handed to _extract_json_or_return_content.
MaxLen == 4
\* How far, in tenths, an engine-reported confidence lies outside [0, 1].
MaxOver == 5
\* Longest list of acronyms, and of terms, a seeding run is given.
MaxEntries == 2
\* Runs of the seeding tool on one database file.
MaxRuns == 2
\* Most acronym tokens in the text of one /acronyms request, and most
\* expansions in one answer of the backend.
MaxTokens == 2
\* initialize() calls on one handle.
MaxInits == 3

\* --------------------------------------------------------------- vocabulary
Backends == {"llama.cpp", "vllm", "huggingface", "lmstudio", "groq"}

\* Values of MAPLECLEAR_BACKEND: the five backend names and one that names nothing.
Identifiers == Backends \cup {"bogus"}

\* The identifiers startup_event has a branch for.
Recognised == {"llama.cpp", "vllm"}

Ops == {"simplify", "translate", "expand_acronyms"}

\* The words _get_demo_response looks for in the rendered prompt.  "simplify"
\* stands for the test ("simplify" in p or "plain language" in p), "translate"
\* for ("translate" in p or "french" in p), "acronym" for ("acronym" in p).
Keywords == {"simplify", "translate", "acronym"}

\* Input texts, by the keywords they contain.
Texts == {{}, {"simplify"}, {"translate"}}

\* Model identifiers the discovery endpoint may list.
ModelIds == {"openai/gpt-oss-20b", "GPT_OSS-120b", "llama-2-7b"}

None == "none"

\* Values of the model_path a backend is constructed with: the default of
\* Config.MODEL_PATH and a path without "20b" in it.
ModelPaths == {"~/.mapleclear/models/gpt-oss-20b/", "models/small.gguf"}

\* "20b" in str(model_path).lower()
Has20b(p) == p = "~/.mapleclear/models/gpt-oss-20b/"

\* Field names of the JSON objects an engine may answer with.
FullKeys == {"plain", "rationale", "cautions", "translated", "target_language",
             "preserved_terms", "confidence", "acronyms"}

\* ------------------------------------------------------- engine output text
\* A text is described by its form and, when it holds a JSON object, by the
\* keys of that object:
\*   empty      ""
\*   prose      text with no brace in it
\*   truncated  JSON cut off before its closing brace
\*   nonobj     valid JSON that is not an object, e.g. [1, 2]
\*   object     the whole text is one JSON object
\*   embedded   prose around one valid JSON object
\*   reasoning  prose made of reasoning lines only, e.g. "We should answer"
\*   fragment   malformed JSON with both braces and an empty "plain" value,
\*              e.g. {"plain": "", "rationale": [}
Raw(form, keys) == [form |-> form, keys |-> keys]

EngineOutputs ==
    {Raw("empty", {}), Raw("prose", {}), Raw("truncated", {}), Raw("nonobj", {}),
     Raw("object", FullKeys), Raw("object", {"rationale"}), Raw("embedded", FullKeys),
     Raw("reasoning", {}), Raw("fragment", {})}

\* json.loads(text) succeeds.
JsonLoads(raw) == raw.form \in {"nonobj", "object"}

VARIABLES
    Config_BACKEND,   \* Config.BACKEND, or the class instantiated directly
    driver,           \* "app": startup_event builds the handle; "direct": a caller does
    model_file,       \* Path(self.model_path).expanduser().exists()
    phase,            \* "constructed", "initialized", "init_raised"
    initIn,           \* what the probes of the last initialize() observed
    initExc,          \* the exception initialize() raised, or None
    startup,          \* "pending", "completed", "aborted"
    handle,           \* the backend object's fields
    req,              \* the request in flight, or Idle
    nreq,             \* requests issued so far
    lastFailed,       \* the previous request's engine call failed
    model_path,       \* self.model_path
    stopped,          \* the server process has shut down
    ncleanup,         \* cleanup() calls that have returned
    released,         \* per owned resource, how often it was closed or deleted
    info,             \* what the last get_model_info() returned, or NoInfo
    ext,              \* a text and what _extract_json_or_return_content made of it
    norm,             \* an engine-reported confidence and what the result carries
    db,               \* the terminology database file and the seeding run on it
    acr,              \* the /acronyms request being handled
    tpl,              \* a _load_prompt_template call and what it returned
    life,             \* a handle under repeated initialize() and cleanup()
    conc              \* two requests in flight on one handle

vars == <<Config_BACKEND, driver, model_file, phase, initIn, initExc, startup,
          handle, req, nreq, lastFailed, model_path, stopped, ncleanup, released,
          info, ext, norm, db, acr, tpl, life, conc>>

\* The variables of the terminology database, of the /acronyms handler, of
\* template loading, of repeated initialization and of concurrent requests.
Aux == <<db, acr, tpl, life, conc>>

\* The variables neither a request nor initialize() touches.
Rest == <<model_path, stopped, ncleanup, released, info, ext, norm, Aux>>

\* ------------------------------------------------------------ the handle
\* __init__ of the five backends: every field at its constructor value.
NewHandle ==
    [ model_loaded   |-> FALSE,    \* LlamaCppBackend
      llama_cpp_path |-> None,
      llm            |-> None,     \* VLLMBackend
      model          |-> None,     \* HuggingFaceBackend
      tokenizer      |-> None,
      model_name     |-> None,     \* LMStudioBackend
      session        |-> None,
      api_key        |-> None,     \* GroqBackend
      client         |-> None,
      demo_mode      |-> FALSE ]

\* What initialize() observes of its environment.  Fields a backend does not
\* read stay at "n/a".
ProbeIn(dep, key, binary, build, load, status, discovery, models) ==
    [ dep |-> dep, key |-> key, binary |-> binary, build |-> build,
      load |-> load, status |-> status, discovery |-> discovery, models |-> models ]

NoProbe == ProbeIn("n/a", "n/a", "n/a", "n/a", "n/a", "n/a", "n/a", <<>>)

ModelLists == UNION {[1..n -> ModelIds] : n \in 0..MaxModels}

ProbeInputs(b) ==
    CASE b = "llama.cpp" ->
           {ProbeIn("n/a", "n/a", "present", "n/a", "n/a", "n/a", "n/a", <<>>)}
           \cup {ProbeIn("n/a", "n/a", "absent", bl, "n/a", "n/a", "n/a", <<>>) :
                   bl \in {"ok", "nonzero", "cannot_run"}}
      [] b = "vllm" ->
           {ProbeIn("missing", "n/a", "n/a", "n/a", "n/a", "n/a", "n/a", <<>>)}
           \cup {ProbeIn("present", "n/a", "n/a", "n/a", ld, "n/a", "n/a", <<>>) :
                   ld \in {"ok", "error"}}
      [] b = "huggingface" ->
           {ProbeIn("missing", "n/a", "n/a", "n/a", "n/a", "n/a", "n/a", <<>>)}
           \cup {ProbeIn("present", "n/a", "n/a", "n/a", ld, "n/a", "n/a", <<>>) :
                   ld \in {"ok", "error"}}
      [] b = "lmstudio" ->
           {ProbeIn("missing", "n/a", "n/a", "n/a", "n/a", "n/a", "n/a", <<>>)}
           \cup {ProbeIn("present", "n/a", "n/a", "n/a", "n/a", st, "n/a", <<>>) :
                   st \in {"status_err", "timeout", "conn_err"}}
           \cup {ProbeIn("present", "n/a", "n/a", "n/a", "n/a", "ok", d, <<>>) :
                   d \in {"status_err", "conn_err", "malformed"}}
           \cup {ProbeIn("present", "n/a", "n/a", "n/a", "n/a", "ok", "ok", ms) :
                   ms \in ModelLists}
      [] b = "groq" ->
           {ProbeIn("missing", "n/a", "n/a", "n/a", "n/a", "n/a", "n/a", <<>>),
            ProbeIn("present", "absent", "n/a", "n/a", "n/a", "n/a", "n/a", <<>>)}
           \cup {ProbeIn("present", "present", "n/a", "n/a", "n/a", st, "n/a", <<>>) :
                   st \in {"ok", "conn_err", "timeout", "status_err"}}

\* The outcome of a call: the handle it leaves and the exception it raised.
Outcome(h, exc) == [h |-> h, exc |-> exc]

\* LlamaCppBackend.initialize
Llama_initialize(h, in) ==
    IF in.binary = "absent" /\ in.build = "nonzero"
    THEN Outcome(h, "CalledProcessError")
    ELSE IF in.binary = "absent" /\ in.build = "cannot_run"
    THEN Outcome(h, "FileNotFoundError")
    ELSE Outcome([h EXCEPT !.llama_cpp_path = "server/backends/llama.cpp/main",
                           !.model_loaded = TRUE], None)

\* VLLMBackend.initialize
VLLM_initialize(h, in, file) ==
    IF in.dep = "missing" THEN Outcome(h, None)
    ELSE IF ~file THEN Outcome(h, None)
    ELSE IF in.load = "error" THEN Outcome(h, None)
    ELSE Outcome([h EXCEPT !.llm = "loaded"], None)

\* HuggingFaceBackend.initialize
HF_initialize(h, in) ==
    IF in.dep = "missing" THEN Outcome(h, None)
    ELSE IF in.load = "error"
    THEN Outcome([h EXCEPT !.model = None, !.tokenizer = None], None)
    ELSE Outcome([h EXCEPT !.model = "loaded", !.tokenizer = "loaded"], None)

\* 'gpt-oss' in m.lower() or 'gpt_oss' in m.lower()
IsGptOss(m) == m \in {"openai/gpt-oss-20b", "GPT_OSS-120b"}

\* [m for m in models if ...]
RECURSIVE Filter(_)
Filter(ms) ==
    IF ms = <<>> THEN <<>>
    ELSE IF IsGptOss(Head(ms)) THEN <<Head(ms)>> \o Filter(Tail(ms))
    ELSE Filter(Tail(ms))

\* A selection that takes the first listed model whatever it is.
SelectModel_first_listed(models) ==
    IF models # <<>> THEN models[1] ELSE None

\* The model-selection branch of LMStudioBackend.initialize
SelectModel(models) ==
    IF Filter(models) # <<>> THEN Filter(models)[1]
    ELSE IF models # <<>> THEN models[1]
    ELSE None

\* LMStudioBackend._get_available_models: the list, or the exception that escapes
AvailableModels(in) ==
    CASE in.discovery = "ok" -> [models |-> in.models, exc |-> None]
      [] in.discovery = "status_err" -> [models |-> <<>>, exc |-> None]
      [] in.discovery = "conn_err" -> [models |-> <<>>, exc |-> None]
      [] in.discovery = "malformed" -> [models |-> <<>>, exc |-> "JSONDecodeError"]

\* LMStudioBackend.initialize
LMS_initialize(h, in) ==
    IF in.dep = "missing" THEN Outcome(h, None)
    ELSE LET h1 == [h EXCEPT !.session = "open"]
         IN IF in.status # "ok"
            THEN Outcome([h1 EXCEPT !.model_name = None], None)
            ELSE LET got == AvailableModels(in)
                 IN IF got.exc # None
                    THEN Outcome(h1, got.exc)
                    ELSE Outcome([h1 EXCEPT !.model_name = SelectModel(got.models)], None)

\* GroqBackend.initialize
Groq_initialize(h, in) ==
    IF in.dep = "missing" THEN Outcome([h EXCEPT !.demo_mode = TRUE], None)
    ELSE IF in.key = "absent" THEN Outcome([h EXCEPT !.demo_mode = TRUE], None)
    ELSE LET h1 == [h EXCEPT !.api_key = "set", !.client = "open"]
         IN IF in.status = "ok" THEN Outcome(h1, None)
            ELSE Outcome([h1 EXCEPT !.demo_mode = TRUE], None)

\* initialize() of backend b
initialize(b, h, in, file) ==
    CASE b = "llama.cpp" -> Llama_initialize(h, in)
      [] b = "vllm" -> VLLM_initialize(h, in, file)
      [] b = "huggingface" -> HF_initialize(h, in)
      [] b = "lmstudio" -> LMS_initialize(h, in)
      [] b = "groq" -> Groq_initialize(h, in)

\* What an engine call came back with: a text, or a kind of failure.
Answer(kind, raw) == [kind |-> kind, raw |-> raw]

\* The resources a handle owns: aiohttp session, httpx client, vLLM engine,
\* transformers model and tokenizer.
Resources == {"session", "client", "llm", "model", "tokenizer"}

\* No text is being extracted, no confidence normalized.
NoExt == [txt |-> <<>>, ret |-> "n/a", out |-> <<>>]
NoNorm == [op |-> "n/a", given |-> FALSE, reported |-> 0, ret |-> "n/a", conf |-> 0]

\* No database file, no seeding run; no /acronyms request.
NoDb == [pc |-> "n/a", run |-> 0, L |-> <<>>, T |-> <<>>, exists |-> FALSE,
         acronyms |-> {}, terms |-> {}, first |-> [acronyms |-> {}, terms |-> {}]]
NoAcr == [pc |-> "n/a", text |-> <<>>, found |-> <<>>,
          invoked |-> FALSE, ret |-> "n/a", response |-> <<>>]
\* No template is being loaded.
NoTpl == [pc |-> "n/a", b |-> "n/a", task |-> "n/a", files |-> {},
          ret |-> [kind |-> "n/a", task |-> "n/a"]]
\* No handle is being re-initialized.
NoLife == [b |-> "n/a", h |-> NewHandle, ninit |-> 0, ncln |-> 0,
           created |-> 0, closed |-> 0]

\* get_model_info() has not been called.
NoInfo == [state |-> None, ret |-> None,
           val |-> [name |-> None, size |-> None, memory_usage |-> None]]

\* A request as it is issued, and no request.
NewReq(op, text) ==
    [ pc       |-> "start",
      op       |-> op,
      text     |-> text,
      engine   |-> FALSE,     \* the engine was invoked
      proc     |-> None,      \* the spawned process: running, exited (ended by
                              \* itself and collected), killed, reaped
      tried    |-> <<>>,      \* HTTP endpoints posted to, in order
      answer   |-> Answer(None, Raw("empty", {})),  \* the last engine answer
      primary  |-> None,      \* how the completions endpoint answered
      failure  |-> None,      \* the last engine-level failure of this request
      timedOut |-> FALSE,     \* an engine call of this request timed out
      src      |-> None,      \* where the response text came from
      raw      |-> Raw("empty", {}),
      ret      |-> "pending",
      exc      |-> None,
      cautions |-> FALSE ]

Idle == [NewReq("none", {}) EXCEPT !.pc = "idle"]

\* No two requests are in flight.
NoConc == [b |-> "n/a", h |-> NewHandle, r |-> <<Idle, Idle>>, pid |-> <<0, 0>>,
           nspawn |-> 0, killed |-> {}, hist |-> << <<>>, <<>> >>, alarm |-> 0]
AuxInit == db = NoDb /\ acr = NoAcr /\ tpl = NoTpl /\ life = NoLife /\ conc = NoConc

Init ==
    /\ driver \in {"app", "direct"}
    /\ Config_BACKEND \in (IF driver = "app" THEN Identifiers ELSE Backends)
    /\ model_file \in BOOLEAN
    /\ phase = "constructed"
    /\ initIn = NoProbe
    /\ initExc = None
    /\ startup = "pending"
    /\ handle = NewHandle
    /\ req = Idle
    /\ nreq = 0
    /\ lastFailed = FALSE
    /\ model_path \in ModelPaths
    /\ stopped = FALSE
    /\ ncleanup = 0
    /\ released = [x \in Resources |-> 0]
    /\ info = NoInfo
    /\ ext = NoExt
    /\ norm = NoNorm
    /\ AuxInit

\* app.py startup_event: build the configured backend and initialize it; any
\* exception is printed and raised again, which aborts the startup.
startup_event ==
    /\ driver = "app"
    /\ startup = "pending"
    /\ IF Config_BACKEND \in Recognised
       THEN \E in \in ProbeInputs(Config_BACKEND) :
              LET out == initialize(Config_BACKEND, handle, in, model_file)
              IN /\ handle' = out.h
                 /\ initIn' = in
                 /\ initExc' = out.exc
                 /\ phase' = IF out.exc = None THEN "initialized" ELSE "init_raised"
                 /\ startup' = IF out.exc = None THEN "completed" ELSE "aborted"
       ELSE /\ startup' = "aborted"
            /\ initExc' = "ValueError"
            /\ UNCHANGED <<handle, initIn, phase>>
    /\ UNCHANGED <<Config_BACKEND, driver, model_file, req, nreq, lastFailed, Rest>>

\* A caller that constructs a backend class itself and awaits initialize().
Initialize ==
    /\ driver = "direct"
    /\ phase = "constructed"
    /\ \E in \in ProbeInputs(Config_BACKEND) :
         LET out == initialize(Config_BACKEND, handle, in, model_file)
         IN /\ handle' = out.h
            /\ initIn' = in
            /\ initExc' = out.exc
            /\ phase' = IF out.exc = None THEN "initialized" ELSE "init_raised"
    /\ UNCHANGED <<Config_BACKEND, driver, model_file, startup, req, nreq, lastFailed,
                   Rest>>

\* ------------------------------------------------------- handle states
\* The lifecycle state the fields of the handle stand for.  Failed is an
\* initialize() that raised.
HandleState ==
    IF phase = "constructed" THEN "Uninitialized"
    ELSE IF phase = "init_raised" THEN "Failed"
    ELSE CASE Config_BACKEND = "llama.cpp" ->
                IF handle.model_loaded /\ model_file THEN "Ready" ELSE "DemoMode"
           [] Config_BACKEND = "vllm" ->
                IF handle.llm # None THEN "Ready" ELSE "DemoMode"
           [] Config_BACKEND = "huggingface" ->
                IF handle.model # None /\ handle.tokenizer # None
                THEN "Ready" ELSE "DemoMode"
           [] Config_BACKEND = "lmstudio" ->
                IF handle.model_name # None /\ handle.session # None
                THEN "Ready" ELSE "DemoMode"
           [] Config_BACKEND = "groq" ->
                IF ~handle.demo_mode /\ handle.client # None
                THEN "Ready" ELSE "DemoMode"
           [] OTHER -> "Uninitialized"

\* ------------------------------------------------------------- prompts
\* Keywords of the built-in template of an operation (_load_prompt_template).
\* The simplify templates also speak of acronyms.
TemplateKw(op) ==
    CASE op = "simplify" -> {"simplify", "acronym"}
      [] op = "translate" -> {"translate"}
      [] op = "expand_acronyms" -> {"acronym"}

\* prompt_template.format(text=text, ...): the prompt holds the words of the
\* template and the words of the caller's text.
PromptKw(op, text) == TemplateKw(op) \cup text

\* _get_demo_response(prompt)
DemoResponse(b, kw) ==
    IF "simplify" \in kw
    THEN Raw("object", {"plain", "rationale", "cautions"})
    ELSE IF "translate" \in kw
    THEN Raw("object", {"translated", "target_language", "preserved_terms",
                        "confidence", "cautions"})
    ELSE IF "acronym" \in kw
    THEN Raw("object", IF b = "groq" THEN {"expansions"} ELSE {"acronyms"})
    ELSE IF b = "groq" THEN Raw("prose", {}) ELSE Raw("object", {"result"})

\* ------------------------------------------------------- normalization
\* What an operation hands its caller: a returned result (with an empty or a
\* non-empty caution list) or a raised exception.
Result(ret, exc, cautions) == [ret |-> ret, exc |-> exc, cautions |-> cautions]

Returned(cautions) == Result("returned", None, cautions)
Raised(exc) == Result("raised", exc, FALSE)

PrimaryKey(op) ==
    CASE op = "simplify" -> "plain"
      [] op = "translate" -> "translated"
      [] op = "expand_acronyms" -> "acronyms"

\* The caution list an operation copies from a parsed object.  AcronymResponse
\* has no caution field.  An object without the key stands for one whose list
\* is empty as well.
CautionsOf(op, raw) == op # "expand_acronyms" /\ "cautions" \in raw.keys

\* The parsing tail of LlamaCppBackend.simplify / translate / expand_acronyms
\* (VLLMBackend has the same one).
Llama_parse(op, raw) ==
    IF ~JsonLoads(raw) THEN Raised("RuntimeError")
    ELSE IF raw.form = "nonobj" THEN Raised("TypeError")
    ELSE IF PrimaryKey(op) \notin raw.keys THEN Raised("KeyError")
    ELSE Returned(CautionsOf(op, raw))

\* The parsing tail of LMStudioBackend.simplify / translate / expand_acronyms
\* (HuggingFaceBackend has the same one).
LMS_parse(op, raw) ==
    IF ~JsonLoads(raw) THEN Returned(op # "expand_acronyms")
    ELSE IF raw.form = "nonobj" THEN Raised("AttributeError")
    ELSE Returned(CautionsOf(op, raw))

\* The fields a pydantic response model requires of the keyword arguments.
Required(op) ==
    CASE op = "simplify" -> {"plain"}
      [] op = "translate" -> {"translated", "target_language", "confidence"}
      [] op = "expand_acronyms" -> {}

\* The parsing tail of GroqBackend.simplify / translate / expand_acronyms.
Groq_parse(op, raw) ==
    IF ~JsonLoads(raw) THEN Returned(op = "simplify")
    ELSE IF raw.form = "nonobj" THEN Raised("TypeError")
    ELSE IF ~(Required(op) \subseteq raw.keys) THEN Raised("ValidationError")
    ELSE Returned(CautionsOf(op, raw))

\* GroqBackend._extract_clean_text: what it makes of a text that is no JSON.
Groq_extract_clean_text(raw) ==
    CASE raw.form = "empty" -> "placeholder"
      [] raw.form = "fragment" -> "empty"
      [] raw.form = "reasoning" -> "placeholder"
      [] OTHER -> "text"

\* The primary text field (plain, translated) of the result an operation
\* builds in its except branch, from a text json.loads rejected: "text",
\* "placeholder" (a fixed string stands in for it) or "empty".
FallbackPrimary(b, op, raw) ==
    CASE b = "groq" /\ op = "simplify" -> Groq_extract_clean_text(raw)
      [] b = "groq" /\ op = "translate" ->
           IF raw.form = "empty" THEN "empty" ELSE "text"
      [] b \in {"lmstudio", "huggingface"} ->
           IF raw.form = "empty" THEN "empty" ELSE "text"
      [] OTHER -> None

\* What GroqBackend.simplify / translate / expand_acronyms do with a
\* GroqConnectionError or GroqAPIError of _run_inference.
Groq_on_error(op, exc) ==
    IF op = "simplify" THEN Returned(TRUE) ELSE Raised(exc)

\* LMStudioBackend._extract_json_or_return_content (and the same lines of
\* HuggingFaceBackend._process_response).
LMS_extract(raw) ==
    IF raw.form = "embedded" THEN Raw("object", raw.keys) ELSE raw

\* GroqBackend._extract_json_or_return_content: the text, or the exception of
\* parsed.keys() on a JSON value that is no object.
Groq_extract(raw) ==
    IF raw.form = "embedded" THEN [raw |-> Raw("object", raw.keys), exc |-> None]
    ELSE IF raw.form = "nonobj" THEN [raw |-> raw, exc |-> "AttributeError"]
    ELSE [raw |-> raw, exc |-> None]

\* ------------------------------------------------------------- requests
\* The operation ends: res is what its caller gets.
Finish(r, src, raw, res) ==
    [r EXCEPT !.pc = "done", !.src = src, !.raw = raw,
              !.ret = res.ret, !.exc = res.exc, !.cautions = res.cautions]

\* Engine answers: a text, or a failure.
Texts200 == {Answer("ok", raw) : raw \in EngineOutputs}
Fail(kinds) == {Answer(k, Raw("empty", {})) : k \in kinds}

ProcessOutcomes == Texts200 \cup Fail({"nonzero_exit"})
CompletionsOutcomes ==
    Texts200 \cup Fail({"no_choices", "non200", "conn_err", "timeout", "malformed"})
ChatOutcomes ==
    Texts200 \cup Fail({"no_choices", "non200", "conn_err", "timeout", "malformed"})
GroqOutcomes ==
    Texts200 \cup Fail({"no_choices", "http_status", "conn_err", "timeout", "malformed"})
HFOutcomes == Texts200 \cup Fail({"error", "timeout"})

ReqFrame == UNCHANGED <<Config_BACKEND, driver, model_file, phase, initIn, initExc,
                        startup, handle, lastFailed, Rest>>

\* LlamaCppBackend: simplify / translate / expand_acronyms up to the await on
\* process.communicate().
Llama_begin(r, h, file, spawn) ==
    IF ~h.model_loaded THEN Finish(r, None, r.raw, Raised("RuntimeError"))
    ELSE IF ~file
    THEN LET demo == DemoResponse("llama.cpp", PromptKw(r.op, r.text))
         IN Finish(r, "demo", demo, Llama_parse(r.op, demo))
    ELSE IF spawn = "ok"
    THEN [r EXCEPT !.pc = "communicate", !.engine = TRUE, !.proc = "running"]
    ELSE Finish([r EXCEPT !.engine = TRUE, !.failure = "spawn_error"],
                None, r.raw, Raised("RuntimeError"))

\* VLLMBackend: simplify / translate / expand_acronyms.  They take the text
\* from _get_demo_response and never call _run_inference.
VLLM_begin(r) ==
    LET demo == DemoResponse("vllm", PromptKw(r.op, r.text))
    IN Finish(r, "demo", demo, Llama_parse(r.op, demo))

\* HuggingFaceBackend: simplify / translate / expand_acronyms; _run_inference
\* is synchronous and turns the errors it catches into a demo response.
HF_begin(r, h, o) ==
    LET demo == DemoResponse("huggingface", PromptKw(r.op, r.text))
    IN IF h.model = None \/ h.tokenizer = None
       THEN Finish(r, "demo", demo, LMS_parse(r.op, demo))
       ELSE IF o.kind = "ok"
       THEN Finish([r EXCEPT !.engine = TRUE, !.answer = o], "engine",
                   LMS_extract(o.raw), LMS_parse(r.op, LMS_extract(o.raw)))
       ELSE Finish([r EXCEPT !.engine = TRUE, !.answer = o, !.failure = o.kind,
                             !.timedOut = (o.kind = "timeout")],
                   "demo", demo, LMS_parse(r.op, demo))

\* LMStudioBackend: simplify / translate / expand_acronyms up to the POST to
\* the completions endpoint.
LMS_begin(r, h) ==
    LET demo == DemoResponse("lmstudio", PromptKw(r.op, r.text))
    IN IF h.model_name = None \/ h.session = None
       THEN Finish(r, "demo", demo, LMS_parse(r.op, demo))
       ELSE [r EXCEPT !.pc = "completions", !.engine = TRUE,
                      !.tried = <<"completions">>]

\* GroqBackend: simplify / translate / expand_acronyms up to the POST to the
\* chat completions endpoint.  GroqError itself is caught by none of them.
Groq_begin(r, h) ==
    LET demo == DemoResponse("groq", PromptKw(r.op, r.text))
    IN IF h.demo_mode
       THEN Finish(r, "demo", demo, Groq_parse(r.op, demo))
       ELSE IF h.client = None
       THEN Finish(r, None, r.raw, Raised("GroqError"))
       ELSE [r EXCEPT !.pc = "post", !.engine = TRUE, !.tried = <<"chat">>]

\* A caller awaits simplify, translate or expand_acronyms on the handle, be it
\* before or after a cleanup().  No request is issued to a stopped server.
BeginRequest ==
    /\ phase = "initialized"
    /\ req.pc = "idle"
    /\ ~stopped
    /\ nreq < MaxRequests
    /\ \E op \in Ops, text \in Texts :
         LET r == NewReq(op, text)
         IN CASE Config_BACKEND = "llama.cpp" ->
                   \E spawn \in {"ok", "oserror"} :
                      req' = Llama_begin(r, handle, model_file, spawn)
              [] Config_BACKEND = "vllm" -> req' = VLLM_begin(r)
              [] Config_BACKEND = "huggingface" ->
                   \E o \in HFOutcomes : req' = HF_begin(r, handle, o)
              [] Config_BACKEND = "lmstudio" -> req' = LMS_begin(r, handle)
              [] Config_BACKEND = "groq" -> req' = Groq_begin(r, handle)
    /\ nreq' = nreq + 1
    /\ ReqFrame

\* LlamaCppBackend._run_inference: process.communicate() completes in time.
Llama_exit(r, o) ==
    IF o.kind = "ok"
    THEN Finish([r EXCEPT !.proc = "exited", !.answer = o],
                "engine", o.raw, Llama_parse(r.op, o.raw))
    ELSE Finish([r EXCEPT !.proc = "exited", !.answer = o, !.failure = "nonzero_exit"],
                None, r.raw, Raised("RuntimeError"))

LlamaProcExit ==
    /\ req.pc = "communicate"
    /\ \E o \in ProcessOutcomes : req' = Llama_exit(req, o)
    /\ UNCHANGED nreq
    /\ ReqFrame

\* A timeout handler that raises without process.kill() and process.wait().
Llama_timeout_nokill(r, exited) ==
    Finish([r EXCEPT !.proc = IF exited THEN "exited" ELSE "running",
                     !.answer = Answer("timeout", r.raw),
                     !.failure = "timeout", !.timedOut = TRUE],
           None, r.raw, Raised("RuntimeError"))

\* LlamaCppBackend._run_inference: wait_for raises TimeoutError and the handler
\* calls process.kill().  If the process has exited in the meantime kill()
\* raises ProcessLookupError, which leaves as RuntimeError("Inference failed").
Llama_timeout(r, exited) ==
    IF exited
    THEN Finish([r EXCEPT !.proc = "exited", !.answer = Answer("timeout", r.raw),
                          !.failure = "timeout", !.timedOut = TRUE],
                None, r.raw, Raised("RuntimeError"))
    ELSE [r EXCEPT !.pc = "wait", !.proc = "killed", !.answer = Answer("timeout", r.raw),
                   !.failure = "timeout", !.timedOut = TRUE]

LlamaTimeout ==
    /\ req.pc = "communicate"
    /\ \E exited \in BOOLEAN : req' = Llama_timeout(req, exited)
    /\ UNCHANGED nreq
    /\ ReqFrame

\* LlamaCppBackend._run_inference: await process.wait() returns, then
\* RuntimeError("Inference timeout") is raised and wrapped.
Llama_reap(r) ==
    Finish([r EXCEPT !.proc = "reaped"], None, r.raw, Raised("RuntimeError"))

LlamaReap ==
    /\ req.pc = "wait"
    /\ req' = Llama_reap(req)
    /\ UNCHANGED nreq
    /\ ReqFrame

\* LMStudioBackend._try_completions_endpoint: a text, None, or an exception.
TryCompletions(o) ==
    CASE o.kind = "ok" -> [ret |-> "text", raw |-> LMS_extract(o.raw), exc |-> None]
      [] o.kind = "no_choices" -> [ret |-> "none", raw |-> o.raw, exc |-> None]
      [] o.kind \in {"conn_err", "timeout"} -> [ret |-> "none", raw |-> o.raw, exc |-> None]
      [] o.kind = "non200" -> [ret |-> "raise", raw |-> o.raw, exc |-> "LMStudioAPIError"]
      [] o.kind = "malformed" -> [ret |-> "raise", raw |-> o.raw, exc |-> "JSONDecodeError"]

\* A _run_inference that answers every unusable primary result with the demo
\* response and never posts to the chat endpoint.
AfterCompletions_nofallback(t) ==
    CASE t.ret = "text" /\ t.raw.form # "empty" -> "return"
      [] t.ret = "text" /\ t.raw.form = "empty" -> "demo"
      [] t.ret = "none" -> "demo"
      [] t.ret = "raise" /\ t.exc = "LMStudioAPIError" -> "demo"
      [] t.ret = "raise" /\ t.exc # "LMStudioAPIError" -> "raise"

\* LMStudioBackend._run_inference after _try_completions_endpoint: return the
\* text if it is truthy, go on to the chat endpoint if it is None or empty,
\* answer a caught exception with the demo response, let any other one through.
AfterCompletions(t) ==
    CASE t.ret = "text" /\ t.raw.form # "empty" -> "return"
      [] t.ret = "text" /\ t.raw.form = "empty" -> "chat"
      [] t.ret = "none" -> "chat"
      [] t.ret = "raise" /\ t.exc = "LMStudioAPIError" -> "demo"
      [] t.ret = "raise" /\ t.exc # "LMStudioAPIError" -> "raise"

\* How the completions endpoint answered, as the claims speak of it.
PrimaryAnswer(o) ==
    IF o.kind = "ok" THEN (IF o.raw.form = "empty" THEN "empty_text" ELSE "text")
    ELSE o.kind

LMS_completions(r, o) ==
    LET t == TryCompletions(o)
        r1 == [r EXCEPT !.primary = PrimaryAnswer(o), !.answer = o,
                        !.failure = IF o.kind = "ok" THEN r.failure ELSE o.kind,
                        !.timedOut = (o.kind = "timeout")]
        demo == DemoResponse("lmstudio", PromptKw(r.op, r.text))
        next == AfterCompletions(t)
    IN CASE next = "return" -> Finish(r1, "engine", t.raw, LMS_parse(r.op, t.raw))
         [] next = "chat" -> [r1 EXCEPT !.pc = "chat", !.tried = r.tried \o <<"chat">>]
         [] next = "demo" -> Finish(r1, "demo", demo, LMS_parse(r.op, demo))
         [] next = "raise" -> Finish(r1, None, r.raw, Raised(t.exc))

LMSCompletionsResponse ==
    /\ req.pc = "completions"
    /\ \E o \in CompletionsOutcomes : req' = LMS_completions(req, o)
    /\ UNCHANGED nreq
    /\ ReqFrame

\* LMStudioBackend._try_chat_completions_endpoint and the handlers of
\* _run_inference around it.
LMS_chat(r, o) ==
    LET demo == DemoResponse("lmstudio", PromptKw(r.op, r.text))
        r1 == [r EXCEPT !.answer = o,
                        !.failure = IF o.kind = "ok" THEN r.failure ELSE o.kind,
                        !.timedOut = r.timedOut \/ o.kind = "timeout"]
    IN CASE o.kind = "ok" ->
              Finish(r1, "engine", LMS_extract(o.raw), LMS_parse(r.op, LMS_extract(o.raw)))
         [] o.kind \in {"no_choices", "non200", "conn_err", "timeout"} ->
              Finish(r1, "demo", demo, LMS_parse(r.op, demo))
         [] o.kind = "malformed" -> Finish(r1, None, r.raw, Raised("KeyError"))

LMSChatResponse ==
    /\ req.pc = "chat"
    /\ \E o \in ChatOutcomes : req' = LMS_chat(req, o)
    /\ UNCHANGED nreq
    /\ ReqFrame

\* GroqBackend._run_inference from the answer to client.post on: the text it
\* returns, or the GroqAPIError every failure ends as.
Groq_run_inference(o) ==
    IF o.kind # "ok" THEN [raw |-> o.raw, exc |-> "GroqAPIError"]
    ELSE IF o.raw.form = "empty" THEN [raw |-> o.raw, exc |-> "GroqAPIError"]
    ELSE IF Groq_extract(o.raw).exc # None THEN [raw |-> o.raw, exc |-> "GroqAPIError"]
    ELSE [raw |-> Groq_extract(o.raw).raw, exc |-> None]

Groq_response(r, o) ==
    LET got == Groq_run_inference(o)
        r1 == [r EXCEPT !.answer = o,
                        !.failure = IF got.exc = None THEN r.failure
                                    ELSE IF o.kind = "ok" THEN "malformed" ELSE o.kind,
                        !.timedOut = (o.kind = "timeout")]
    IN IF got.exc = None
       THEN Finish(r1, "engine", got.raw, Groq_parse(r.op, got.raw))
       ELSE Finish(r1, "failure", r.raw, Groq_on_error(r.op, got.exc))

\* A _run_inference that switches the handle to demo mode when a call fails.
GroqResponse_demoting ==
    /\ req.pc = "post"
    /\ \E o \in GroqOutcomes :
         /\ req' = Groq_response(req, o)
         /\ handle' = IF Groq_run_inference(o).exc # None
                      THEN [handle EXCEPT !.demo_mode = TRUE] ELSE handle
    /\ UNCHANGED <<Config_BACKEND, driver, model_file, phase, initIn, initExc,
                   startup, nreq, lastFailed, Rest>>

GroqResponse ==
    /\ req.pc = "post"
    /\ \E o \in GroqOutcomes : req' = Groq_response(req, o)
    /\ UNCHANGED nreq
    /\ ReqFrame

\* The caller takes the result (or the exception) of the finished operation.
Collect ==
    /\ req.pc = "done"
    /\ req' = Idle
    /\ lastFailed' = (req.failure # None)
    /\ UNCHANGED <<Config_BACKEND, driver, model_file, phase, initIn, initExc,
                   startup, handle, nreq, Rest>>

\* ------------------------------------------------------------- cleanup
\* What a cleanup() leaves: the handle, and the resources it closed or deleted.
Cleaned(h, rel) == [h |-> h, rel |-> rel]

\* A cleanup that leaves model_loaded as it is.
Llama_cleanup_noop(h) == Cleaned(h, {})

\* LlamaCppBackend.cleanup
Llama_cleanup(h) == Cleaned([h EXCEPT !.model_loaded = FALSE], {})

\* VLLMBackend.cleanup
VLLM_cleanup(h) ==
    IF h.llm # None THEN Cleaned([h EXCEPT !.llm = None], {"llm"}) ELSE Cleaned(h, {})

\* HuggingFaceBackend.cleanup
HF_cleanup(h) ==
    Cleaned([h EXCEPT !.model = None, !.tokenizer = None],
            (IF h.model # None THEN {"model"} ELSE {})
              \cup (IF h.tokenizer # None THEN {"tokenizer"} ELSE {}))

\* A cleanup that closes the session and keeps the reference to it.
LMS_cleanup_keeping(h) ==
    IF h.session # None THEN Cleaned(h, {"session"}) ELSE Cleaned(h, {})

\* LMStudioBackend.cleanup
LMS_cleanup(h) ==
    IF h.session # None THEN Cleaned([h EXCEPT !.session = None], {"session"})
    ELSE Cleaned(h, {})

\* GroqBackend.cleanup
Groq_cleanup(h) ==
    IF h.client # None THEN Cleaned([h EXCEPT !.client = None], {"client"})
    ELSE Cleaned(h, {})

\* cleanup() of backend b
cleanup(b, h) ==
    CASE b = "llama.cpp" -> Llama_cleanup(h)
      [] b = "vllm" -> VLLM_cleanup(h)
      [] b = "huggingface" -> HF_cleanup(h)
      [] b = "lmstudio" -> LMS_cleanup(h)
      [] b = "groq" -> Groq_cleanup(h)

Release(rel) == [x \in Resources |-> released[x] + (IF x \in rel THEN 1 ELSE 0)]

\* A caller that owns the backend object awaits cleanup() on it, in whatever
\* state initialize() left it or before initialize() ran.
Cleanup ==
    /\ driver = "direct"
    /\ req.pc = "idle"
    /\ ncleanup < MaxCleanups
    /\ LET out == cleanup(Config_BACKEND, handle)
       IN /\ handle' = out.h
          /\ released' = Release(out.rel)
    /\ ncleanup' = ncleanup + 1
    /\ UNCHANGED <<Config_BACKEND, driver, model_file, phase, initIn, initExc,
                   startup, req, nreq, lastFailed, model_path, stopped, info,
                   ext, norm, Aux>>

\* The events app.py registers a handler for with @app.on_event.
OnEvent == {"startup"}

\* app.py shutdown_event: cleanup() of app.state.backend if it was assigned.
shutdown_event(h) ==
    IF Config_BACKEND \in Recognised THEN cleanup(Config_BACKEND, h) ELSE Cleaned(h, {})

\* The server that completed its startup shuts down: the handlers registered
\* for "shutdown" run, then the process ends.
ServerShutdown ==
    /\ driver = "app"
    /\ startup = "completed"
    /\ ~stopped
    /\ req.pc = "idle"
    /\ stopped' = TRUE
    /\ IF "shutdown" \in OnEvent
       THEN LET out == shutdown_event(handle)
            IN /\ handle' = out.h
               /\ released' = Release(out.rel)
               /\ ncleanup' = ncleanup + 1
       ELSE UNCHANGED <<handle, released, ncleanup>>
    /\ UNCHANGED <<Config_BACKEND, driver, model_file, phase, initIn, initExc,
                   startup, req, nreq, lastFailed, model_path, info, ext, norm, Aux>>

\* ---------------------------------------------------------- model info
\* The ModelInfo fields that tell a loaded model from a placeholder.  "real"
\* stands for a value taken from the loaded model or its path.
ModelInfo(name, size, memory_usage) ==
    [name |-> name, size |-> size, memory_usage |-> memory_usage]

\* LlamaCppBackend.get_model_info
Llama_get_model_info(path, file) ==
    ModelInfo(IF file THEN "real" ELSE "demo-model",
              IF Has20b(path) THEN "20B" ELSE "unknown",
              IF Has20b(path) THEN "~12GB" ELSE "unknown")

\* VLLMBackend.get_model_info
VLLM_get_model_info(path, file) ==
    ModelInfo(IF file THEN "real" ELSE "demo-model",
              IF Has20b(path) THEN "20B" ELSE "unknown",
              IF Has20b(path) THEN "~16GB" ELSE "unknown")

\* HuggingFaceBackend.get_model_info
HF_get_model_info(h) ==
    IF h.model # None THEN ModelInfo("real", "real", "unknown")
    ELSE ModelInfo("demo-model", "unknown", "unknown")

\* LMStudioBackend.get_model_info
LMS_get_model_info(h) ==
    IF h.model_name # None
    THEN ModelInfo("real",
                   CASE h.model_name = "openai/gpt-oss-20b" -> "20B"
                     [] h.model_name = "llama-2-7b" -> "7B"
                     [] OTHER -> "unknown",
                   "Optimized by LM Studio")
    ELSE ModelInfo("demo-model", "unknown", "N/A")

\* GroqBackend.get_model_info
Groq_get_model_info(path) ==
    ModelInfo("real", IF Has20b(path) THEN "20B" ELSE "120B", "Remote (Groq API)")

\* get_model_info() of backend b
get_model_info(b, h, path, file) ==
    CASE b = "llama.cpp" -> Llama_get_model_info(path, file)
      [] b = "vllm" -> VLLM_get_model_info(path, file)
      [] b = "huggingface" -> HF_get_model_info(h)
      [] b = "lmstudio" -> LMS_get_model_info(h)
      [] b = "groq" -> Groq_get_model_info(path)

\* A caller (the /health handler, or the owner of the object) awaits
\* get_model_info() on a handle that has not been cleaned up.
GetModelInfo ==
    /\ driver = "app" => (startup = "completed" /\ ~stopped)
    /\ Config_BACKEND \in Backends
    /\ ncleanup = 0
    /\ req.pc = "idle"
    /\ info' = [state |-> HandleState, ret |-> "returned",
                val |-> get_model_info(Config_BACKEND, handle, model_path, model_file)]
    /\ UNCHANGED <<Config_BACKEND, driver, model_file, phase, initIn, initExc,
                   startup, handle, req, nreq, lastFailed, model_path, stopped,
                   ncleanup, released, ext, norm, Aux>>

Next ==
    \/ startup_event
    \/ Initialize
    \/ BeginRequest
    \/ LlamaProcExit
    \/ LlamaTimeout
    \/ LlamaReap
    \/ LMSCompletionsResponse
    \/ LMSChatResponse
    \/ GroqResponse
    \/ Collect
    \/ Cleanup
    \/ ServerShutdown
    \/ GetModelInfo

Spec == Init /\ [][Next]_vars

\* ============================================================ text functions
\* _extract_json_or_return_content and the confidence of a result, as
\* functions of their input.  A text is a sequence of tokens:
\*   "{" "}" "[" "]"   the JSON brackets
\*   "1"               a JSON scalar
\*   "w"               a word of prose
\*   " "               whitespace
\* "{" v "}" stands for an object with one member whose value is v, "[" v "]"
\* for an array of one element.
Tokens == {"{", "}", "[", "]", "1", "w", " "}

TextsUpTo(n) == UNION {[1..k -> Tokens] : k \in 0..n}

\* The text without its whitespace tokens.
RECURSIVE NoWs(_)
NoWs(t) ==
    IF t = <<>> THEN <<>>
    ELSE IF Head(t) = " " THEN NoWs(Tail(t))
    ELSE <<Head(t)>> \o NoWs(Tail(t))

\* A sequence of non-whitespace tokens is one JSON value.
RECURSIVE IsValue(_)
IsValue(t) ==
    \/ t = <<"1">>
    \/ /\ Len(t) >= 2
       /\ \/ (t[1] = "{" /\ t[Len(t)] = "}")
          \/ (t[1] = "[" /\ t[Len(t)] = "]")
       /\ (Len(t) = 2 \/ IsValue(SubSeq(t, 2, Len(t) - 1)))

\* json.loads(t) succeeds; and its value is a dict.
IsJson(t) == IsValue(NoWs(t))
IsObject(t) == IsJson(t) /\ NoWs(t)[1] = "{"

\* t.strip()
RECURSIVE LStrip(_)
LStrip(t) == IF t # <<>> /\ Head(t) = " " THEN LStrip(Tail(t)) ELSE t
RECURSIVE RStrip(_)
RStrip(t) ==
    IF t # <<>> /\ t[Len(t)] = " " THEN RStrip(SubSeq(t, 1, Len(t) - 1)) ELSE t
Strip(t) == RStrip(LStrip(t))

\* content.find(c) + 1 and content.rfind(c) + 1: 0 when c is not in the text.
Find(t, c) ==
    IF \E i \in 1..Len(t) : t[i] = c
    THEN CHOOSE i \in 1..Len(t) : t[i] = c /\ \A j \in 1..(i - 1) : t[j] # c
    ELSE 0
RFind(t, c) ==
    IF \E i \in 1..Len(t) : t[i] = c
    THEN CHOOSE i \in 1..Len(t) : t[i] = c /\ \A j \in (i + 1)..Len(t) : t[j] # c
    ELSE 0

\* content[start:end], from the first "{" to the last "}".
BraceSpan(t) == SubSeq(t, Find(t, "{"), RFind(t, "}"))

\* What an extractor hands back: a text, or an exception.
Extracted(ret, out) == [ret |-> ret, out |-> out]

\* An extractor that returns the text between the braces it validated.
LMS_extract_text_inner(t) ==
    IF Find(t, "{") > 0 /\ RFind(t, "}") > 0
    THEN IF IsJson(BraceSpan(t))
         THEN Extracted("returned", SubSeq(t, Find(t, "{") + 1, RFind(t, "}") - 1))
         ELSE Extracted("returned", t)
    ELSE Extracted("returned", t)

\* LMStudioBackend._extract_json_or_return_content (and the same lines of
\* HuggingFaceBackend._process_response)
LMS_extract_text(t) ==
    IF Find(t, "{") > 0 /\ RFind(t, "}") > 0
    THEN IF IsJson(BraceSpan(t))
         THEN Extracted("returned", BraceSpan(t))
         ELSE Extracted("returned", t)
    ELSE Extracted("returned", t)

\* GroqBackend._extract_json_or_return_content: re.search(r'\{.*\}') matches
\* from the first "{" to the last "}" when the one comes before the other.
Groq_extract_text(t) ==
    IF Strip(t) = <<>> THEN Extracted("returned", t)
    ELSE IF /\ Find(t, "{") > 0
            /\ RFind(t, "}") > Find(t, "{")
            /\ IsJson(BraceSpan(t))
    THEN Extracted("returned", BraceSpan(t))
    ELSE IF IsJson(t)
    THEN (IF IsObject(t) THEN Extracted("returned", t)
          ELSE Extracted("AttributeError", t))
    ELSE Extracted("returned", t)

\* The backends that extract JSON from the text of the engine.
Extractors == {"lmstudio", "huggingface", "groq"}

extract(b, t) ==
    IF b = "groq" THEN Groq_extract_text(t) ELSE LMS_extract_text(t)

\* The confidence an engine may report, in tenths, or none at all.
Reported == (0 - MaxOver)..(10 + MaxOver)

\* The backends that build a result from the object the engine answered with.
Parsers == {"llama.cpp", "huggingface", "lmstudio", "groq"}

\* The confidence of the TranslationResponse / AcronymExpansion an operation
\* builds from a parsed object: given is whether the object has the field.
Confidence(b, op, given, reported) ==
    IF given THEN [ret |-> "returned", conf |-> reported]
    ELSE IF op = "translate" /\ b # "groq" THEN [ret |-> "returned", conf |-> 8]
    ELSE [ret |-> "ValidationError", conf |-> 0]

\* One application of an extractor to a text, or of an operation to an object
\* with a reported confidence.
\* No handle in use: every variable of the backend at its constructor value.
MainIdle ==
    /\ driver = "direct"
    /\ model_file = FALSE
    /\ phase = "constructed"
    /\ initIn = NoProbe
    /\ initExc = None
    /\ startup = "pending"
    /\ handle = NewHandle
    /\ req = Idle
    /\ nreq = 0
    /\ lastFailed = FALSE
    /\ model_path = "models/small.gguf"
    /\ stopped = FALSE
    /\ ncleanup = 0
    /\ released = [x \in Resources |-> 0]
    /\ info = NoInfo

TextInit ==
    /\ MainIdle
    /\ AuxInit
    /\ \/ /\ Config_BACKEND \in Extractors
          /\ ext \in {[txt |-> t, ret |-> "pending", out |-> <<>>] : t \in TextsUpTo(MaxLen)}
          /\ norm = NoNorm
       \/ /\ Config_BACKEND \in Parsers
          /\ ext = NoExt
          /\ norm \in {[op |-> op, given |-> g, reported |-> c, ret |-> "pending", conf |-> 0] :
                         op \in {"translate", "expand_acronyms"}, g \in BOOLEAN,
                         c \in Reported}

\* _extract_json_or_return_content(content)
ExtractContent ==
    /\ ext.ret = "pending"
    /\ ext' = [ext EXCEPT !.ret = extract(Config_BACKEND, ext.txt).ret,
                          !.out = extract(Config_BACKEND, ext.txt).out]
    /\ UNCHANGED <<Config_BACKEND, driver, model_file, phase, initIn, initExc, startup,
                   handle, req, nreq, lastFailed, model_path, stopped, ncleanup,
                   released, info, norm, Aux>>

\* translate / expand_acronyms build their result from the parsed object.
NormalizeConfidence ==
    /\ norm.ret = "pending"
    /\ LET c == Confidence(Config_BACKEND, norm.op, norm.given, norm.reported)
       IN norm' = [norm EXCEPT !.ret = c.ret, !.conf = c.conf]
    /\ UNCHANGED <<Config_BACKEND, driver, model_file, phase, initIn, initExc, startup,
                   handle, req, nreq, lastFailed, model_path, stopped, ncleanup,
                   released, info, ext, Aux>>

TextNext == ExtractContent \/ NormalizeConfidence

SpecText == TextInit /\ [][TextNext]_vars

\* ================================================================ seeding
\* tools/seed_terms.py on one SQLite file.  A table is the set of its rows;
\* a row carries its rowid and the columns the claims speak of.
AcronymKeys == {"CRA", "EI"}
Expansions == {"Canada Revenue Agency", "Agence du revenu du Canada"}
AcronymEntries == [acronym : AcronymKeys, expansion : Expansions]
TermEntries == [term_en : {"tax return", "benefit"}, term_fr : {"fr"}]

ListsUpTo(S, n) == UNION {[1..k -> S] : k \in 0..n}

\* The rowid SQLite gives a row inserted without one: one more than the largest.
NextId(rows) ==
    IF rows = {} THEN 1
    ELSE (CHOOSE i \in {r.id : r \in rows} : \A r \in rows : r.id <= i) + 1

\* A plain INSERT INTO acronyms that keeps the rows in conflict.
InsertAcronym_keeping(rows, e) ==
    rows \cup {[id |-> NextId(rows), acronym |-> e.acronym, expansion |-> e.expansion]}

\* INSERT OR REPLACE INTO acronyms: acronym is UNIQUE, so the rows in conflict
\* on it are deleted before the new row is inserted.
InsertAcronym(rows, e) ==
    LET kept == {r \in rows : r.acronym # e.acronym}
    IN kept \cup {[id |-> NextId(rows), acronym |-> e.acronym, expansion |-> e.expansion]}

\* INSERT OR REPLACE INTO terms: the table has no constraint but its rowid, so
\* nothing is ever in conflict.
InsertTerm(rows, e) ==
    rows \cup {[id |-> NextId(rows), term_en |-> e.term_en, term_fr |-> e.term_fr]}

\* seed_acronyms(db_path, acronyms): the for loop over the list
RECURSIVE seed_acronyms(_, _)
seed_acronyms(rows, L) ==
    IF L = <<>> THEN rows ELSE seed_acronyms(InsertAcronym(rows, Head(L)), Tail(L))

\* seed_terms(db_path, terms)
RECURSIVE seed_terms(_, _)
seed_terms(rows, T) ==
    IF T = <<>> THEN rows ELSE seed_terms(InsertTerm(rows, Head(T)), Tail(T))

\* The tool is run on a path where no file exists yet.
SeedInit ==
    /\ Config_BACKEND = "vllm"
    /\ MainIdle
    /\ ext = NoExt
    /\ norm = NoNorm
    /\ acr = NoAcr
    /\ tpl = NoTpl
    /\ life = NoLife
    /\ conc = NoConc
    /\ db \in {[NoDb EXCEPT !.pc = "create", !.run = 1, !.L = l, !.T = t] :
                 l \in ListsUpTo(AcronymEntries, MaxEntries),
                 t \in ListsUpTo(TermEntries, MaxEntries)}

SeedFrame == UNCHANGED <<Config_BACKEND, driver, model_file, phase, initIn, initExc,
                         startup, handle, req, nreq, lastFailed, model_path, stopped,
                         ncleanup, released, info, ext, norm, acr, tpl, life, conc>>

\* create_database(db_path): CREATE TABLE IF NOT EXISTS leaves existing rows.
create_database ==
    /\ db.pc = "create"
    /\ db' = [db EXCEPT !.pc = "seed_acronyms", !.exists = TRUE]
    /\ SeedFrame

SeedAcronyms ==
    /\ db.pc = "seed_acronyms"
    /\ db' = [db EXCEPT !.pc = "seed_terms", !.acronyms = seed_acronyms(db.acronyms, db.L)]
    /\ SeedFrame

SeedTerms ==
    /\ db.pc = "seed_terms"
    /\ LET rows == seed_terms(db.terms, db.T)
       IN db' = [db EXCEPT !.pc = "done", !.terms = rows,
                           !.first = IF db.run = 1
                                     THEN [acronyms |-> db.acronyms, terms |-> rows]
                                     ELSE db.first]
    /\ SeedFrame

\* main() is run again with the same data.
SeedAgain ==
    /\ db.pc = "done"
    /\ db.run < MaxRuns
    /\ db' = [db EXCEPT !.pc = "create", !.run = db.run + 1]
    /\ SeedFrame

SeedNext == create_database \/ SeedAcronyms \/ SeedTerms \/ SeedAgain

SpecSeed == SeedInit /\ [][SeedNext]_vars

\* ============================================================== /acronyms
\* The POST /acronyms handler of server/app.py over a seeded terminology
\* store.  request.text is the list re.findall(r'\b[A-Z]{2,}\b', ...) makes
\* of it: its acronym tokens, in text order, repeats included.
TextTokens == AcronymKeys \cup {"XYZ"}

\* What backend.expand_acronyms can do: return a list of expansions of its
\* own making for the text it was given, or raise.
AnswerEntries == [acronym : TextTokens, expansion : {"engine"}, source : {"ai_inference"}]
BackendAnswers ==
    [kind : {"returned"}, acronyms : ListsUpTo(AnswerEntries, MaxTokens)]
      \cup {[kind |-> "raised", acronyms |-> <<>>]}

\* The orders in which a for loop can visit set(potential_acronyms).
Orders(S) ==
    {o \in [1..Cardinality(S) -> S] : \A i, j \in 1..Cardinality(S) : o[i] = o[j] => i = j}

\* cursor.fetchone() of SELECT ... WHERE acronym = ?
FetchOne(rows, a) ==
    IF \E r \in rows : r.acronym = a
    THEN {CHOOSE r \in rows : r.acronym = a}
    ELSE {}

\* The entries the loop appends for the tokens with a row, in visiting order o.
RECURSIVE FoundIn(_, _)
FoundIn(rows, o) ==
    IF o = <<>> THEN <<>>
    ELSE LET hit == FetchOne(rows, Head(o))
             rest == FoundIn(rows, Tail(o))
         IN IF hit = {} THEN rest
            ELSE <<[acronym |-> Head(o),
                    expansion |-> (CHOOSE r \in hit : TRUE).expansion,
                    source |-> "local_cache"]>> \o rest

\* unknown_acronyms: the tokens, repeats included, with no entry in found.
unknown_acronyms(text, found) ==
    SelectSeq(text,
              LAMBDA a : ~ \E i \in 1..Len(found) : found[i].acronym = a)

\* A request arrives at a server whose store was seeded by tools/seed_terms.py.
AcrInit ==
    /\ Config_BACKEND = "vllm"
    /\ MainIdle
    /\ ext = NoExt
    /\ norm = NoNorm
    /\ \E l \in ListsUpTo(AcronymEntries, MaxEntries) :
          db = [NoDb EXCEPT !.pc = "done", !.run = 1, !.L = l, !.exists = TRUE,
                            !.acronyms = seed_acronyms({}, l),
                            !.first = [acronyms |-> seed_acronyms({}, l), terms |-> {}]]
    /\ tpl = NoTpl
    /\ life = NoLife
    /\ conc = NoConc
    /\ acr \in {[NoAcr EXCEPT !.pc = "lookup", !.text = t, !.ret = "pending"] :
                  t \in ListsUpTo(TextTokens, MaxTokens)}

AcrFrame == UNCHANGED <<Config_BACKEND, driver, model_file, phase, initIn, initExc,
                        startup, handle, req, nreq, lastFailed, model_path, stopped,
                        ncleanup, released, info, ext, norm, db, tpl, life, conc>>

\* expand_acronyms up to the await of the backend: the loop over the store,
\* then either the return or the call of backend.expand_acronyms.
AcronymsLookup ==
    /\ acr.pc = "lookup"
    /\ \E o \in Orders({acr.text[i] : i \in 1..Len(acr.text)}) :
          LET found == FoundIn(db.acronyms, o)
              unknown == unknown_acronyms(acr.text, found)
          IN acr' = IF unknown = <<>>
                    THEN [acr EXCEPT !.pc = "done", !.found = found, !.ret = "ok",
                                     !.response = found]
                    ELSE [acr EXCEPT !.pc = "await", !.found = found, !.invoked = TRUE]
    /\ AcrFrame

\* The backend returns: found_acronyms.extend(ai_response.acronyms).
AcronymsBackendReturns ==
    /\ acr.pc = "await"
    /\ \E ans \in BackendAnswers :
          /\ ans.kind = "returned"
          /\ acr' = [acr EXCEPT !.pc = "done", !.ret = "ok",
                                !.response = acr.found \o ans.acronyms]
    /\ AcrFrame

\* The backend raises: except Exception -> HTTPException(500).
AcronymsBackendRaises ==
    /\ acr.pc = "await"
    /\ \E ans \in BackendAnswers :
          /\ ans.kind = "raised"
          /\ acr' = [acr EXCEPT !.pc = "done", !.ret = "500"]
    /\ AcrFrame

AcrNext == AcronymsLookup \/ AcronymsBackendReturns \/ AcronymsBackendRaises

SpecAcronyms == AcrInit /\ [][AcrNext]_vars

\* ============================================================== templates
\* _load_prompt_template(task) of each backend.  A template is named by where
\* it comes from: the override file server/prompts/<task>.txt, the built-in
\* dictionary, or the pass-through default of templates.get.
Tasks == {"simplify", "translate", "acronyms", "acronym", "summarize"}

Template(kind, task) == [kind |-> kind, task |-> task]
PassThrough == Template("passthrough", "n/a")

\* The keys of the templates dictionary of backend b.
BuiltIn(b) ==
    IF b = "groq" THEN {"simplify", "translate", "acronym"}
    ELSE {"simplify", "translate", "acronyms"}

\* templates.get(task, "Process this text: {text}")
templates_get(b, task) ==
    IF task \in BuiltIn(b) THEN Template("builtin", task) ELSE PassThrough

\* _load_prompt_template of LlamaCppBackend, VLLMBackend, HuggingFaceBackend
\* and LMStudioBackend: files is the set of tasks with a file in server/prompts.
File_load_prompt_template(b, task, files) ==
    IF task \in files THEN Template("override", task) ELSE templates_get(b, task)

\* GroqBackend._load_prompt_template: the dictionary alone.
Groq_load_prompt_template(task) == templates_get("groq", task)

load_prompt_template(b, task, files) ==
    IF b = "groq" THEN Groq_load_prompt_template(task)
    ELSE File_load_prompt_template(b, task, files)

TplInit ==
    /\ Config_BACKEND = "vllm"
    /\ MainIdle
    /\ ext = NoExt
    /\ norm = NoNorm
    /\ db = NoDb
    /\ acr = NoAcr
    /\ life = NoLife
    /\ conc = NoConc
    /\ tpl \in {[NoTpl EXCEPT !.pc = "call", !.b = b, !.task = t, !.files = f] :
                  b \in Backends, t \in Tasks, f \in SUBSET Tasks}

LoadPromptTemplate ==
    /\ tpl.pc = "call"
    /\ tpl' = [tpl EXCEPT !.pc = "returned",
                          !.ret = load_prompt_template(tpl.b, tpl.task, tpl.files)]
    /\ UNCHANGED <<Config_BACKEND, driver, model_file, phase, initIn, initExc,
                   startup, handle, req, nreq, lastFailed, model_path, stopped,
                   ncleanup, released, info, ext, norm, db, acr, life, conc>>

SpecTemplate == TplInit /\ [][LoadPromptTemplate]_vars

\* ============================================================== lifecycle
\* One backend object whose owner awaits initialize() and cleanup() on it in
\* any order, any number of times.  created counts the sessions and clients
\* ever constructed, closed those that were closed.
Connections == {"session", "client"}

\* The connections an initialize() constructs: aiohttp.ClientSession() by
\* LMStudioBackend, httpx.AsyncClient(...) by GroqBackend, each time anew.
Constructs(b, in) ==
    CASE b = "lmstudio" -> IF in.dep = "present" THEN {"session"} ELSE {}
      [] b = "groq" -> IF in.dep = "present" /\ in.key = "present" THEN {"client"} ELSE {}
      [] OTHER -> {}

\* The connections the handle holds a reference to.
Held(h) == (IF h.session # None THEN 1 ELSE 0) + (IF h.client # None THEN 1 ELSE 0)

LifeInit ==
    /\ Config_BACKEND = "vllm"
    /\ MainIdle
    /\ ext = NoExt
    /\ norm = NoNorm
    /\ db = NoDb
    /\ acr = NoAcr
    /\ tpl = NoTpl
    /\ conc = NoConc
    /\ life \in {[NoLife EXCEPT !.b = b] : b \in Backends}

LifeFrame == UNCHANGED <<Config_BACKEND, driver, model_file, phase, initIn, initExc,
                         startup, handle, req, nreq, lastFailed, model_path, stopped,
                         ncleanup, released, info, ext, norm, db, acr, tpl, conc>>

\* await backend.initialize(), on a fresh handle or on one initialized before.
LifeInitialize ==
    /\ life.ninit < MaxInits
    /\ \E in \in ProbeInputs(life.b), file \in BOOLEAN :
          LET out == initialize(life.b, life.h, in, file)
          IN life' = [life EXCEPT !.h = out.h, !.ninit = life.ninit + 1,
                                  !.created = life.created
                                                + Cardinality(Constructs(life.b, in))]
    /\ LifeFrame

\* await backend.cleanup()
LifeCleanup ==
    /\ life.ncln < MaxCleanups
    /\ LET out == cleanup(life.b, life.h)
       IN life' = [life EXCEPT !.h = out.h, !.ncln = life.ncln + 1,
                               !.closed = life.closed
                                            + Cardinality(out.rel \cap Connections)]
    /\ LifeFrame

LifeNext == LifeInitialize \/ LifeCleanup

SpecLifecycle == LifeInit /\ [][LifeNext]_vars

\* ============================================================ concurrency
\* Two requests in flight on one Ready handle, as the event loop interleaves
\* them: a coroutine runs from one await to the next without interruption.
\* Slot i holds request i, the pid of the process spawned for it and the
\* engine events it observed.
Slots == {1, 2}
ConcBackends == {"llama.cpp", "huggingface"}

\* The handles initialize() leaves Ready, the model file being in place.
ReadyHandles(b) ==
    {out.h : out \in {o \in {initialize(b, NewHandle, in, TRUE) : in \in ProbeInputs(b)} :
                        /\ o.exc = None
                        /\ IF b = "llama.cpp" THEN o.h.model_loaded
                           ELSE o.h.model # None /\ o.h.tokenizer # None}}

\* What a request observes of its engine at one step.
Event(ev, o, exited, spawn) == [ev |-> ev, o |-> o, exited |-> exited, spawn |-> spawn]
NoAnswer == Answer(None, Raw("empty", {}))

\* The step of one request that event e stands for.
Apply(b, h, r, e) ==
    CASE e.ev = "begin" -> IF b = "llama.cpp" THEN Llama_begin(r, h, TRUE, e.spawn)
                           ELSE HF_begin(r, h, e.o)
      [] e.ev = "exit" -> Llama_exit(r, e.o)
      [] e.ev = "timeout" -> Llama_timeout(r, e.exited)
      [] e.ev = "reap" -> Llama_reap(r)

\* The request run alone on the handle, observing the events es.
RECURSIVE Replay(_, _, _, _)
Replay(b, h, r, es) ==
    IF es = <<>> THEN r ELSE Replay(b, h, Apply(b, h, r, Head(es)), Tail(es))

\* A handler that kills the process the handle spawned last.
KillTarget_latest(c, i) == c.nspawn

\* process.kill() and process.wait() act on the local variable process of
\* the call: the process spawned for request i.
KillTarget(c, i) == c.pid[i]

ConcInit ==
    /\ Config_BACKEND = "vllm"
    /\ MainIdle
    /\ ext = NoExt
    /\ norm = NoNorm
    /\ db = NoDb
    /\ acr = NoAcr
    /\ tpl = NoTpl
    /\ life = NoLife
    /\ \E b \in ConcBackends : \E h \in ReadyHandles(b) :
          conc = [NoConc EXCEPT !.b = b, !.h = h]

ConcFrame == UNCHANGED <<Config_BACKEND, driver, model_file, phase, initIn, initExc,
                         startup, handle, req, nreq, lastFailed, model_path, stopped,
                         ncleanup, released, info, ext, norm, db, acr, tpl, life>>

\* Request i is issued: LlamaCppBackend runs up to the await on
\* process.communicate(), with a process spawned for this call.
ConcLlamaBegin(i) ==
    /\ conc.b = "llama.cpp"
    /\ conc.r[i].pc = "idle"
    /\ \E op \in Ops, text \in Texts, spawn \in {"ok", "oserror"} :
          LET e == Event("begin", NoAnswer, FALSE, spawn)
          IN conc' = [conc EXCEPT
                        !.r[i] = Apply(conc.b, conc.h, NewReq(op, text), e),
                        !.hist[i] = <<e>>,
                        !.nspawn = IF spawn = "ok" THEN conc.nspawn + 1 ELSE conc.nspawn,
                        !.pid[i] = IF spawn = "ok" THEN conc.nspawn + 1 ELSE 0]
    /\ ConcFrame

\* Request i is issued: a HuggingFaceBackend operation holds no await, so it
\* runs to its return; signal.alarm(300) is set and, in the finally, cancelled.
ConcHFRequest(i) ==
    /\ conc.b = "huggingface"
    /\ conc.r[i].pc = "idle"
    /\ \E op \in Ops, text \in Texts, o \in HFOutcomes :
          LET e == Event("begin", o, FALSE, "n/a")
          IN conc' = [conc EXCEPT
                        !.r[i] = Apply(conc.b, conc.h, NewReq(op, text), e),
                        !.hist[i] = <<e>>,
                        !.alarm = 0]
    /\ ConcFrame

\* process.communicate() of request i completes in time.
ConcProcExit(i) ==
    /\ conc.r[i].pc = "communicate"
    /\ \E o \in ProcessOutcomes :
          LET e == Event("exit", o, FALSE, "n/a")
          IN conc' = [conc EXCEPT !.r[i] = Apply(conc.b, conc.h, conc.r[i], e),
                                  !.hist[i] = Append(conc.hist[i], e)]
    /\ ConcFrame

\* wait_for of request i times out: process.kill()
ConcTimeout(i) ==
    /\ conc.r[i].pc = "communicate"
    /\ \E exited \in BOOLEAN :
          LET e == Event("timeout", NoAnswer, exited, "n/a")
          IN conc' = [conc EXCEPT !.r[i] = Apply(conc.b, conc.h, conc.r[i], e),
                                  !.hist[i] = Append(conc.hist[i], e),
                                  !.killed = IF exited THEN conc.killed
                                             ELSE conc.killed \cup {KillTarget(conc, i)}]
    /\ ConcFrame

\* await process.wait() of request i returns.
ConcReap(i) ==
    /\ conc.r[i].pc = "wait"
    /\ LET e == Event("reap", NoAnswer, FALSE, "n/a")
       IN conc' = [conc EXCEPT !.r[i] = Apply(conc.b, conc.h, conc.r[i], e),
                               !.hist[i] = Append(conc.hist[i], e)]
    /\ ConcFrame

ConcNext ==
    \E i \in Slots :
       \/ ConcLlamaBegin(i)
       \/ ConcHFRequest(i)
       \/ ConcProcExit(i)
       \/ ConcTimeout(i)
       \/ ConcReap(i)

SpecConcurrent == ConcInit /\ [][ConcNext]_vars

\* ================================================================= claims
\* The forms of engine output C1 names.
UnusableForms == {"empty", "prose", "truncated", "nonobj"}

\* C1: whatever text the engine answers with (empty, prose, truncated JSON,
\* valid JSON that is no object), the operation that asked for it returns a
\* result and does not raise, on every backend.
C1_NeverRaisesOnEngineOutput ==
    (req.pc = "done" /\ req.answer.kind = "ok" /\ req.answer.raw.form \in UnusableForms)
        => req.ret = "returned"

\* C2: on a Ready Groq handle a connection error, an HTTP error status and a
\* malformed payload all end, for each of the three operations, in a returned
\* result whose caution list is not empty.
C2_GroqErrorsAbsorbed ==
    (Config_BACKEND = "groq" /\ req.pc = "done"
       /\ req.answer.kind \in {"conn_err", "http_status", "malformed"})
        => (req.ret = "returned" /\ req.cautions)

\* C3: an operation whose engine call timed out returns a result to its
\* caller and does not raise, on the process-invoked engine and on the HTTP
\* engines.
C3_TimeoutReturnsResult ==
    (req.pc = "done" /\ req.failure = "timeout") => req.ret = "returned"

\* C4: once a llama.cpp request that timed out has handed control back to its
\* caller, the process it spawned is neither running nor killed-but-unreaped.
C4_NoProcessLeftAfterTimeout ==
    (Config_BACKEND = "llama.cpp" /\ req.pc = "done" /\ req.timedOut)
        => req.proc \in {"reaped", "exited"}

\* C4 witness: a timed-out request ended after its process was killed and reaped.
C4_Witness ==
    /\ Config_BACKEND = "llama.cpp"
    /\ req.pc = "done"
    /\ req.timedOut
    /\ req.proc = "reaped"
    /\ req.ret = "raised"

\* C5: once initialize() has finished no step changes the fields that decide the
\* handle's mode (nor the model file they are read with), and on a Ready Groq,
\* LM Studio or llama.cpp handle a request that follows a failed request has
\* called the engine by the time it ends.
C5_RequestsKeepMode ==
    /\ [][(phase = "initialized" /\ req' # req)
            => (handle' = handle /\ phase' = phase /\ model_file' = model_file)]_vars
    /\ []((lastFailed /\ req.pc = "done" /\ HandleState = "Ready"
             /\ Config_BACKEND \in {"groq", "lmstudio", "llama.cpp"}) => req.engine)

\* C5 witness: on a handle that is still Ready, a request issued after a failed
\* one has called the engine and returned its text.
C5_Witness ==
    /\ lastFailed
    /\ HandleState = "Ready"
    /\ Config_BACKEND \in {"groq", "lmstudio", "llama.cpp"}
    /\ req.pc = "done"
    /\ req.engine
    /\ req.src = "engine"

\* The answers of the completions endpoint that hold no usable choice.
NoUsableChoices == {"no_choices", "empty_text"}

\* C6: an LM Studio request whose completions endpoint answered 200 with no
\* usable choice posts to the chat endpoint next, so it has done so before it
\* ends, with a demo response or otherwise.
C6_SecondaryBeforeDemo ==
    (Config_BACKEND = "lmstudio" /\ req.primary \in NoUsableChoices)
        => (req.pc \in {"chat", "done"} /\ req.tried = <<"completions", "chat">>)

\* C6 witness: such a request ended with the demo response after the chat
\* endpoint was tried.
C6_Witness ==
    /\ Config_BACKEND = "lmstudio"
    /\ req.primary \in NoUsableChoices
    /\ req.pc = "done"
    /\ req.src = "demo"
    /\ req.tried = <<"completions", "chat">>

\* C7: every LM Studio request that calls the engine posts to the completions
\* endpoint first, and when that endpoint is unavailable (connection error,
\* timeout, status other than 200) the request has posted to the chat endpoint
\* by the time it ends.
C7_SecondaryWhenPrimaryUnavailable ==
    /\ (Config_BACKEND = "lmstudio" /\ req.engine) => Head(req.tried) = "completions"
    /\ (Config_BACKEND = "lmstudio" /\ req.pc = "done"
          /\ req.primary \in {"conn_err", "timeout", "non200"})
            => req.tried = <<"completions", "chat">>

\* C8: whatever its probes observe, initialize() of a backend ends without an
\* exception and leaves the handle in one of Ready, DemoMode, Failed.
C8_InitializeNeverRaises ==
    phase # "constructed"
        => (initExc = None /\ HandleState \in {"Ready", "DemoMode", "Failed"})

\* The probe failed for one of the recoverable reasons C9 lists (dependency not
\* installed, no API key, endpoint unreachable or answering an error status,
\* no model available) and for no other reason.
RecoverableProbeFailure ==
    /\ phase # "constructed"
    /\ ncleanup = 0
    /\ ~(initIn.binary = "absent" /\ initIn.build # "ok")
    /\ initIn.discovery # "malformed"
    /\ \/ initIn.dep = "missing"
       \/ initIn.key = "absent"
       \/ initIn.status \in {"conn_err", "timeout", "status_err"}
       \/ initIn.discovery \in {"conn_err", "status_err"}
       \/ (initIn.discovery = "ok" /\ initIn.models = <<>>)
       \/ (Config_BACKEND \in {"llama.cpp", "vllm"} /\ ~model_file)

\* C9: after a probe that failed for a recoverable reason initialize() has not
\* raised, the handle is in DemoMode, and every later request returns a canned
\* response without calling the engine.
C9_RecoverableFailureIsDemoMode ==
    RecoverableProbeFailure
        => /\ initExc = None
           /\ HandleState = "DemoMode"
           /\ req.pc = "done" => (~req.engine /\ req.src = "demo" /\ req.ret = "returned")

\* C10 as stated: the startup is aborted exactly when the configured backend
\* identifier is unknown.
C10_AbortIffUnknownBackend ==
    (driver = "app" /\ startup # "pending")
        => (startup = "aborted" <=> Config_BACKEND \notin Recognised)

\* C11: a handle that reached Ready or DemoMode has had its cleanup() called
\* exactly once by the time the server has shut down.
C11_ShutdownCleansOnce ==
    (driver = "app" /\ stopped /\ HandleState \in {"Ready", "DemoMode"})
        => ncleanup = 1

C13_DemoModeInfoIsPlaceholder ==
    info # NoInfo
        => /\ info.ret = "returned"
           /\ info.state = "DemoMode"
                => /\ info.val.name = "demo-model"
                   /\ info.val.size = "unknown"
                   /\ info.val.memory_usage \in {"unknown", "N/A"}

\* C14: on a handle in DemoMode every operation, whatever the input text,
\* returns without raising, and the canned object it is built from is of the
\* kind requested (it holds the primary field of the operation).
C14_DemoModeAlwaysReturns ==
    (HandleState = "DemoMode" /\ req.pc = "done" /\ req.src = "demo" /\ ~req.engine)
        => (req.ret = "returned" /\ PrimaryKey(req.op) \in req.raw.keys)

\* C15: when the text of the engine is a JSON object, whichever of the expected
\* fields it lacks, the operation returns a result and does not raise.
C15_MissingFieldsDefaulted ==
    (req.pc = "done" /\ req.src = "engine" /\ req.answer.kind = "ok"
       /\ req.answer.raw.form = "object")
        => req.ret = "returned"

\* C17: a result that was not built from a whole-text JSON object of the engine
\* (the object was cut out of surrounding text, or the text was no JSON at all)
\* carries at least one caution.
C17_FallbackCarriesCaution ==
    (req.pc = "done" /\ req.ret = "returned" /\ req.src = "engine"
       /\ req.answer.kind = "ok" /\ req.answer.raw.form # "object")
        => req.cautions

\* C18: when the text of the engine is no usable JSON, the plain or translated
\* field of the returned result is not empty.
C18_PrimaryFieldNeverEmpty ==
    (req.pc = "done" /\ req.ret = "returned" /\ req.src = "engine"
       /\ req.op \in {"simplify", "translate"} /\ ~JsonLoads(req.raw))
        => FallbackPrimary(Config_BACKEND, req.op, req.raw) # "empty"

\* C16: for every text the extractor returns, and what it returns follows the
\* stated precedence: a text that is one JSON object gives that object; else, if
\* the span from the first "{" to the last "}" is valid JSON, exactly that span;
\* else the text itself, unchanged.
C16_ExtractorPrecedence ==
    ext.ret \notin {"n/a", "pending"}
        => /\ ext.ret = "returned"
           /\ IF IsObject(ext.txt) THEN Strip(ext.out) = Strip(ext.txt)
              ELSE IF /\ Find(ext.txt, "{") > 0
                      /\ RFind(ext.txt, "}") > 0
                      /\ IsJson(BraceSpan(ext.txt))
              THEN ext.out = BraceSpan(ext.txt)
              ELSE ext.out = ext.txt

\* C19: extraction is idempotent: whatever text an extractor has returned, the
\* extractor applied to that text returns it unchanged.
C19_ExtractionIdempotent ==
    ext.ret = "returned"
        => extract(Config_BACKEND, ext.out) = Extracted("returned", ext.out)

\* C19 witness: the extractor cut a JSON object out of a longer text.
C19_Witness ==
    /\ ext.ret = "returned"
    /\ ext.out # ext.txt
    /\ IsObject(ext.out)
    /\ Len(ext.out) < Len(ext.txt)

\* C20: the confidence of a returned TranslationResponse or AcronymExpansion
\* lies in [0, 1] (0 to 10 tenths), whatever the engine reported.
C20_ConfidenceInUnitInterval ==
    norm.ret = "returned" => (norm.conf >= 0 /\ norm.conf <= 10)

\* ---------------------------------------------------------------- seeding
\* SELECT ... FROM acronyms WHERE acronym = k
Lookup(rows, k) == {r \in rows : r.acronym = k}

\* The expansion of the last entry of L whose key is k.
LastExpansion(L, k) ==
    LET at == {i \in 1..Len(L) : L[i].acronym = k}
        last == CHOOSE i \in at : \A j \in at : j <= i
    IN L[last].expansion

KeysOf(L) == {L[i].acronym : i \in 1..Len(L)}

\* C25: after create_database and seed_acronyms(db, L), every key of L is
\* looked up to exactly one row, that row carries the expansion of the last
\* entry of L with the key, and the table holds one row per distinct key.
C25_LastEntryWins ==
    db.pc \in {"seed_terms", "done"} =>
        /\ \A k \in KeysOf(db.L) :
              /\ Cardinality(Lookup(db.acronyms, k)) = 1
              /\ \A r \in Lookup(db.acronyms, k) : r.expansion = LastExpansion(db.L, k)
        /\ Cardinality(db.acronyms) = Cardinality(KeysOf(db.L))

\* A list with one key twice, under two expansions, has been seeded.
C25_Witness ==
    /\ db.pc = "seed_terms"
    /\ Len(db.L) = 2
    /\ db.L[1].acronym = db.L[2].acronym
    /\ db.L[1].expansion # db.L[2].expansion
    /\ Cardinality(db.acronyms) = 1

\* The columns of a table without the rowids.
AcronymContent(rows) == {[acronym |-> r.acronym, expansion |-> r.expansion] : r \in rows}

\* C30: a second run of create_database, seed_acronyms and seed_terms with
\* the same data leaves both tables with the rows of the first run: no acronym
\* and no term is stored twice.
C30_SeedingIdempotent ==
    (db.pc = "done" /\ db.run >= 2) =>
        /\ AcronymContent(db.acronyms) = AcronymContent(db.first.acronyms)
        /\ Cardinality(db.acronyms) = Cardinality(db.first.acronyms)
        /\ Cardinality(db.terms) = Cardinality(db.first.terms)

\* -------------------------------------------------------------- /acronyms
\* The tokens of the request with a row in the store.
InStore == {acr.text[i] : i \in 1..Len(acr.text)} \cap {r.acronym : r \in db.acronyms}

\* C21: every acronym token of the text that is in the terminology store is
\* returned with the stored expansion and the cache source tag; the backend's
\* expand_acronyms is invoked exactly when some token is not in the store.
C21_StoreHitsReturned ==
    acr.pc = "done" =>
        /\ \A a \in InStore :
              \E i \in 1..Len(acr.response) :
                 /\ acr.response[i].acronym = a
                 /\ acr.response[i].source = "local_cache"
                 /\ \E r \in db.acronyms :
                       r.acronym = a /\ r.expansion = acr.response[i].expansion
        /\ acr.invoked <=> (\E i \in 1..Len(acr.text) : acr.text[i] \notin InStore)

\* C27: a token answered from the terminology store does not appear a second
\* time in the response with an expansion of the engine's.
C27_EngineAnswersRemainderOnly ==
    (acr.pc = "done" /\ acr.ret = "ok") =>
        \A i \in 1..Len(acr.response) :
            acr.response[i].source # "local_cache" => acr.response[i].acronym \notin InStore

\* ------------------------------------------------------------ engine use
\* C26: on a Ready handle every simplify, translate and expand_acronyms
\* request invokes the engine before its result is returned, and the demo
\* response is returned only after the engine call failed; for every backend.
C26_ReadyInvokesEngine ==
    (HandleState = "Ready" /\ req.pc = "done") =>
        /\ req.engine
        /\ req.src = "demo" => req.failure # None

\* ------------------------------------------------------- model selection
\* The discovery endpoint answered initialize() with a list of models.
Discovered ==
    /\ Config_BACKEND = "lmstudio"
    /\ phase = "initialized"
    /\ initIn.dep = "present"
    /\ initIn.status = "ok"
    /\ initIn.discovery = "ok"

\* C22: LM Studio initialize selects from the discovered list the first model
\* whose identifier matches the target (gpt-oss), otherwise the first listed
\* model, otherwise, the list being empty, none, and the handle is in DemoMode.
C22_ModelPreference ==
    Discovered =>
        LET ms == initIn.models
            matching == {i \in 1..Len(ms) : IsGptOss(ms[i])}
        IN /\ matching # {} =>
                \E i \in matching : /\ \A j \in matching : i <= j
                                    /\ handle.model_name = ms[i]
           /\ (matching = {} /\ ms # <<>>) => handle.model_name = ms[1]
           /\ ms = <<>> => (handle.model_name = None /\ HandleState = "DemoMode")

\* A matching model is listed behind one that does not match, and was selected.
C22_Witness ==
    /\ Discovered
    /\ Len(initIn.models) = 2
    /\ ~IsGptOss(initIn.models[1])
    /\ IsGptOss(initIn.models[2])
    /\ handle.model_name = initIn.models[2]

\* -------------------------------------------------------------- templates
\* C23: in every backend the override file of a task, if there is one, is
\* used instead of the built-in template; otherwise the built-in template of
\* the task; and the pass-through template for a task without a built-in one.
C23_TemplateOrder ==
    tpl.pc = "returned" =>
        /\ tpl.task \in tpl.files => tpl.ret = Template("override", tpl.task)
        /\ (tpl.task \notin tpl.files /\ tpl.task \in BuiltIn(tpl.b)) =>
              tpl.ret = Template("builtin", tpl.task)
        /\ (tpl.task \notin tpl.files /\ tpl.task \notin BuiltIn(tpl.b)) =>
              tpl.ret = PassThrough

\* ---------------------------------------------------------- after cleanup
\* cleanup() has returned and the handle is as cleanup() leaves it.
IsCleaned ==
    /\ ncleanup >= 1
    /\ Config_BACKEND \in Backends
    /\ cleanup(Config_BACKEND, handle) = Cleaned(handle, {})

\* C29: a simplify, translate or expand_acronyms call on a handle whose
\* cleanup() has returned spawns no engine process and posts no HTTP request.
C29_NoEngineAfterCleanup ==
    (IsCleaned /\ req.pc # "idle")
        => (~req.engine /\ req.proc = None /\ req.tried = <<>>)

\* A llama.cpp handle that was initialized with the binary and the model file
\* in place was cleaned up, and the request issued then raised before any spawn.
C29_Witness ==
    /\ IsCleaned
    /\ Config_BACKEND = "llama.cpp"
    /\ phase = "initialized"
    /\ model_file
    /\ req.pc = "done"
    /\ req.exc = "RuntimeError"
    /\ ~req.engine

\* -------------------------------------------------------------- lifecycle
\* C28: after any sequence of initialize() and cleanup() calls every session
\* and client the handle ever created is either the one it holds or closed,
\* so the handle owns at most one live connection.
C28_NoLeakedConnection ==
    life.created - life.closed = Held(life.h)

====
